---- MODULE Spec2Model ----
(***************************************************************************)
(* Model of testsuite/drivers/alr.py: the manual / delegated manifest      *)
(* mutators (delete_array_entry_from_manifest, alr_unpin, alr_pin,         *)
(* alr_with), the lockfile timestamp reset, the run_alr invoker and        *)
(* prepare_indexes.                                                        *)
(*                                                                         *)
(* Specifications: Spec (any calls of the mutators), SpecAdd (manual       *)
(* additions and removals), SpecDep (one manual addition of any            *)
(* expression), SpecRun (one call of run_alr) and SpecIndex (one call of   *)
(* prepare_indexes).                                                       *)
(*                                                                         *)
(* Text is modelled character by character: a string is a sequence of      *)
(* one-character strings, the manifest is the sequence of the characters   *)
(* of alire.toml.  The external tool `alr` is a black box: an invocation   *)
(* takes one tick of the clock, exits with some status and may rewrite the *)
(* lockfile at the time it runs.  A call starts one tick after the latest  *)
(* of the two file times.                                                  *)
(***************************************************************************)
EXTENDS Integers, Sequences, FiniteSets, TLC

VARIABLES manifest,       \* characters of alire.toml
          manifestMtime,  \* modification time of alire.toml
          lockMtime,      \* modification time of alire.lock
          ncalls,         \* number of driver calls made so far
          last            \* the last driver call: arguments, outcome, effects

vars == <<manifest, manifestMtime, lockMtime, ncalls, last>>

(* ------------------------------ bounds --------------------------------- *)
MaxCalls == 2        \* calls of a test case (specification Spec)
MaxAddCalls == 3     \* calls of a test case that adds and removes (SpecAdd)
MaxDepLen == 3       \* characters of a dependency expression (SpecDep)
MaxOutLen == 2       \* characters of the output of the tool (SpecRun)

(* ------------------------------ strings -------------------------------- *)
NL == "\n"
Empty == <<>>
InitManifest == <<"n", "a", "m", "e", " ", "=", " ", "\"", "x", "x", "x", "\"", "\n">>
SpaceEq == <<" ", "=">>
DependsOn == <<"d", "e", "p", "e", "n", "d", "s", "-", "o", "n">>
Pins == <<"p", "i", "n", "s">>
VerOpen == <<" ", "=", " ", "{", " ", "v", "e", "r", "s", "i", "o", "n", " ", "=", " ", "\"">>
VerClose == <<"\"", " ", "}">>
PathOpen == <<" ", "=", " ", "{", " ", "p", "a", "t", "h", " ", "=", " ", "'">>
UrlOpen == <<" ", "=", " ", "{", " ", "u", "r", "l", " ", "=", " ", "'">>
CommitMid == <<"'", ",", " ", "c", "o", "m", "m", "i", "t", " ", "=", " ", "'">>
BranchMid == <<"'", ",", " ", "b", "r", "a", "n", "c", "h", " ", "=", " ", "'">>
QClose == <<"'", " ", "}">>
DepMid == <<" ", "=", " ", "\"">>
DQuote == <<"\"">>
Star == <<"*">>
ArgAlr == <<"a", "l", "r">>
ArgN == <<"-", "n">>
ArgD == <<"-", "d">>
ArgF == <<"-", "f">>
ArgQ == <<"-", "q">>
ArgPin == <<"p", "i", "n">>
ArgWith == <<"w", "i", "t", "h">>
ArgUnpin == <<"-", "-", "u", "n", "p", "i", "n">>
ArgUse == <<"-", "-", "u", "s", "e">>
ArgCommit == <<"-", "-", "c", "o", "m", "m", "i", "t">>
ArgBranch == <<"-", "-", "b", "r", "a", "n", "c", "h">>
ArgDel == <<"-", "-", "d", "e", "l">>

\* "[[" + array + "]]\n"
Header(array) == <<"[", "[">> \o array \o <<"]", "]", NL>>

\* s.startswith(p)
StartsWith(s, p) == Len(p) <= Len(s) /\ SubSeq(s, 1, Len(p)) = p

\* c in s
Contains(s, c) == \E k \in 1..Len(s) : s[k] = c

\* s.find(c): 0-based index of the first occurrence of c, -1 when absent
Find(s, c) ==
    IF Contains(s, c)
    THEN (CHOOSE k \in 1..Len(s) : s[k] = c /\ \A j \in 1..(k-1) : s[j] # c) - 1
    ELSE -1

\* max(list) over a non-empty set of integers
Max(S) == CHOOSE m \in S : \A x \in S : x <= m

\* file.readlines(): split after every "\n", terminators kept
RECURSIVE ReadLines(_)
ReadLines(text) ==
    IF text = <<>> THEN <<>>
    ELSE IF ~Contains(text, NL) THEN <<text>>
    ELSE LET k == Find(text, NL) + 1
         IN <<SubSeq(text, 1, k)>> \o ReadLines(SubSeq(text, k + 1, Len(text)))

\* file.writelines(lines): the concatenation of the lines
RECURSIVE WriteLines(_)
WriteLines(lines) ==
    IF lines = <<>> THEN <<>> ELSE Head(lines) \o WriteLines(Tail(lines))

(* --------------------------- the file system --------------------------- *)
\* A world is the state a call runs in: the two files, the clock, the
\* effects the call has had so far and the exception it has raised, if any.
StartWorld ==
    [manifest |-> manifest, manifestMtime |-> manifestMtime,
     lockMtime |-> lockMtime, clock |-> Max({manifestMtime, lockMtime}) + 1,
     trace |-> <<>>, err |-> "ok"]

Event(ev, argv) == [ev |-> ev, argv |-> argv]

\* raise ...
Raise(w, exc) == [w EXCEPT !.err = exc]

\* Sequencing: F runs in every world the preceding statements returned
\* normally in; a raised exception skips the rest of the call.
Then(ws, F(_)) == UNION { IF w.err = "ok" THEN F(w) ELSE {w} : w \in ws }

\* open(alr_manifest(), "wt").writelines(lines); the event keeps the text
\* the file holds once written.
WriteManifest(w, lines) ==
    [w EXCEPT !.manifest = WriteLines(lines),
              !.manifestMtime = w.clock,
              !.trace = Append(@, Event("write", <<WriteLines(lines)>>))]

\* Faulty variant of AppendManifest: the file is opened with "wt", which
\* truncates it.
TruncatingAppend(w, lines) == WriteManifest(w, lines)

\* open(alr_manifest(), "at").writelines(lines)
AppendManifest(w, lines) ==
    [w EXCEPT !.manifest = @ \o WriteLines(lines),
              !.manifestMtime = w.clock,
              !.trace = Append(@, Event("write", <<w.manifest \o WriteLines(lines)>>))]

\* Faulty variant of Utime: os.utime(alr_lockfile()) without the times,
\* which sets the lockfile time to the current time.
UtimeNow(w) ==
    [w EXCEPT !.lockMtime = w.clock,
              !.trace = Append(@, Event("utime", <<>>))]

\* os.utime(alr_lockfile(), (0, 0))
Utime(w) ==
    [w EXCEPT !.lockMtime = 0,
              !.trace = Append(@, Event("utime", <<>>))]

(* ------------------------------- run_alr ------------------------------- *)
ToolStatus == {0, 1}

Argv(args, debug, force, quiet) ==
    <<ArgAlr, ArgN>>
      \o (IF debug THEN <<ArgD>> ELSE <<>>)
      \o (IF force THEN <<ArgF>> ELSE <<>>)
      \o (IF quiet THEN <<ArgQ>> ELSE <<>>)
      \o args

\* p = Run(argv): the tool runs for one tick, may rewrite the lockfile and
\* exits with some status; a non-zero status raises CalledProcessError
\* when complain_on_error.
RunAlr(w, args, complain_on_error, debug, force, quiet) ==
    { [w EXCEPT !.clock = w.clock + 1,
                !.lockMtime = IF rewrite THEN w.clock + 1 ELSE @,
                !.trace = Append(@, Event("cli", Argv(args, debug, force, quiet))),
                !.err = IF status # 0 /\ complain_on_error
                        THEN "InvocationFailure" ELSE @]
      : status \in ToolStatus, rewrite \in BOOLEAN }

(* ------------------- delete_array_entry_from_manifest ------------------ *)
\* Faulty variant of FoundAt: the test of the preceding header line is lost.
FoundAtAnyArray(lines, array, crate) ==
    LET hits == { i \in 2..Len(lines) : StartsWith(lines[i], crate \o SpaceEq) }
    IN IF hits = {} THEN 0 ELSE CHOOSE i \in hits : \A j \in hits : i <= j

\* Faulty variant of FoundAt: the test of the crate name is lost.
FoundAtAnyCrate(lines, array, crate) ==
    LET hits == { i \in 2..Len(lines) : lines[i-1] = Header(array) }
    IN IF hits = {} THEN 0 ELSE CHOOSE i \in hits : \A j \in hits : i <= j

\* The first i (range(1, len(lines)), here counted from 1) whose line starts
\* with "<crate> =" and whose preceding line is the header; 0 when none.
FoundAt(lines, array, crate) ==
    LET hits == { i \in 2..Len(lines) :
                    /\ StartsWith(lines[i], crate \o SpaceEq)
                    /\ lines[i-1] = Header(array) }
    IN IF hits = {} THEN 0 ELSE CHOOSE i \in hits : \A j \in hits : i <= j

\* Faulty variant of PopPair: lines.pop(i) alone, the header stays.
PopEntry(lines, i) == SubSeq(lines, 1, i - 1) \o SubSeq(lines, i + 1, Len(lines))

\* lines.pop(i); lines.pop(i-1)
PopPair(lines, i) == SubSeq(lines, 1, i - 2) \o SubSeq(lines, i + 1, Len(lines))

\* Faulty variant of DeleteArrayEntryFromManifest: the lockfile time is reset
\* before the search, so also when the removal fails.
DeleteAfterReset(w, array, crate, fail_if_missing, update) ==
    LET lines == ReadLines(w.manifest)
        i == FoundAt(lines, array, crate)
    IN IF i # 0
       THEN Then({WriteManifest(Utime(w), PopPair(lines, i))},
                 LAMBDA x : IF update
                            THEN RunAlr(x, <<ArgPin>>, TRUE, TRUE, FALSE, TRUE)
                            ELSE {x})
       ELSE IF fail_if_missing
            THEN {Raise(Utime(w), "MutationNotFound")}
            ELSE {Utime(w)}

DeleteArrayEntryFromManifest(w, array, crate, fail_if_missing, update) ==
    LET lines == ReadLines(w.manifest)
        i == FoundAt(lines, array, crate)
    IN IF i # 0
       THEN Then(Then({WriteManifest(w, PopPair(lines, i))},
                      LAMBDA x : IF update
                                 THEN RunAlr(x, <<ArgPin>>, TRUE, TRUE, FALSE, TRUE)
                                 ELSE {x}),
                 LAMBDA y : {Utime(y)})
       ELSE IF fail_if_missing
            THEN {Raise(w, "MutationNotFound")}
            ELSE {Utime(w)}

(* ------------------------------ alr_unpin ------------------------------ *)
\* Faulty variant of AlrUnpin: the delegated branch resets the lockfile time.
AlrUnpinTouching(w, crate, manual, fail_if_missing, update) ==
    IF manual
    THEN DeleteArrayEntryFromManifest(w, Pins, crate, fail_if_missing, update)
    ELSE IF ~update
         THEN {Raise(w, "ConfigurationError")}
         ELSE Then(RunAlr(w, <<ArgPin, ArgUnpin, crate>>, TRUE, TRUE, FALSE, TRUE),
                   LAMBDA x : {Utime(x)})

\* Faulty variant of AlrUnpin: the manual branch leaves the manifest alone.
AlrUnpinKeeping(w, crate, manual, fail_if_missing, update) ==
    IF manual
    THEN {w}
    ELSE IF ~update
         THEN {Raise(w, "ConfigurationError")}
         ELSE RunAlr(w, <<ArgPin, ArgUnpin, crate>>, TRUE, TRUE, FALSE, TRUE)

AlrUnpin(w, crate, manual, fail_if_missing, update) ==
    IF manual
    THEN DeleteArrayEntryFromManifest(w, Pins, crate, fail_if_missing, update)
    ELSE IF ~update
         THEN {Raise(w, "ConfigurationError")}
         ELSE RunAlr(w, <<ArgPin, ArgUnpin, crate>>, TRUE, TRUE, FALSE, TRUE)

(* ------------------------------- alr_pin ------------------------------- *)
\* Faulty variant of PinLine: the commit and the branch of a url are dropped.
PinLineNoRef(crate, version, path, url, commit, branch) ==
    IF version # Empty THEN crate \o VerOpen \o version \o VerClose
    ELSE IF path # Empty THEN crate \o PathOpen \o path \o QClose
    ELSE IF url # Empty THEN crate \o UrlOpen \o url \o QClose
    ELSE Empty

\* The pin line of the manual branch; <<>> stands for the final `else`.
PinLine(crate, version, path, url, commit, branch) ==
    IF version # Empty THEN crate \o VerOpen \o version \o VerClose
    ELSE IF path # Empty THEN crate \o PathOpen \o path \o QClose
    ELSE IF url # Empty /\ commit # Empty
         THEN crate \o UrlOpen \o url \o CommitMid \o commit \o QClose
    ELSE IF url # Empty /\ branch # Empty
         THEN crate \o UrlOpen \o url \o BranchMid \o branch \o QClose
    ELSE IF url # Empty THEN crate \o UrlOpen \o url \o QClose
    ELSE Empty

\* The arguments of the delegated branch.
PinArgs(crate, version, path, url, commit, branch) ==
    IF version # Empty
    THEN << crate \o <<"=">> \o version >>
    ELSE <<crate>>
           \o (IF path # Empty THEN <<ArgUse, path>>
               ELSE IF url # Empty THEN <<ArgUse, url>> ELSE <<>>)
           \o (IF commit # Empty THEN <<ArgCommit, commit>>
               ELSE IF branch # Empty THEN <<ArgBranch, branch>> ELSE <<>>)

\* Faulty variant of AlrPin: commit and branch are not checked.
AlrPinUnchecked(w, crate, version, path, url, commit, branch, manual, update) ==
    IF manual
    THEN Then(AlrUnpin(w, crate, TRUE, FALSE, TRUE),
              LAMBDA x :
                LET pin_line == PinLine(crate, version, path, url, commit, branch)
                IN IF pin_line = Empty
                   THEN {Raise(x, "ValidationFailure")}
                   ELSE Then({Utime(AppendManifest(x,
                                 << <<NL>> \o Header(Pins), pin_line \o <<NL>> >>))},
                             LAMBDA y : IF update
                                        THEN RunAlr(y, <<ArgPin>>, TRUE, TRUE, FALSE, TRUE)
                                        ELSE {y}))
    ELSE IF ~update
         THEN {Raise(w, "ConfigurationError")}
         ELSE RunAlr(w, <<ArgPin>> \o PinArgs(crate, version, path, url, commit, branch),
                     TRUE, TRUE, FALSE, TRUE)

AlrPin(w, crate, version, path, url, commit, branch, manual, update) ==
    IF commit # Empty /\ branch # Empty
    THEN {Raise(w, "ValidationFailure")}
    ELSE IF manual
    THEN Then(AlrUnpin(w, crate, TRUE, FALSE, TRUE),
              LAMBDA x :
                LET pin_line == PinLine(crate, version, path, url, commit, branch)
                IN IF pin_line = Empty
                   THEN {Raise(x, "ValidationFailure")}
                   ELSE Then({Utime(AppendManifest(x,
                                 << <<NL>> \o Header(Pins), pin_line \o <<NL>> >>))},
                             LAMBDA y : IF update
                                        THEN RunAlr(y, <<ArgPin>>, TRUE, TRUE, FALSE, TRUE)
                                        ELSE {y}))
    ELSE IF ~update
         THEN {Raise(w, "ConfigurationError")}
         ELSE RunAlr(w, <<ArgPin>> \o PinArgs(crate, version, path, url, commit, branch),
                     TRUE, TRUE, FALSE, TRUE)

(* ------------------------------- alr_with ------------------------------ *)
Separators == <<"=", "^", "~", "<", ">", "*">>

\* any([separator in dep for separator in separators])
HasSeparator(dep) == \E k \in 1..Len(Separators) : Contains(dep, Separators[k])

\* if manual and not any(...): dep += "*"
FixDep(dep, manual) == IF manual /\ ~HasSeparator(dep) THEN dep \o Star ELSE dep

\* Faulty variant of SepPos: the position of the first separator character.
SepPosFirst(dep) ==
    (CHOOSE k \in 1..Len(dep) :
        /\ \E j \in 1..Len(Separators) : dep[k] = Separators[j]
        /\ \A i \in 1..(k-1) : \A j \in 1..Len(Separators) : dep[i] # Separators[j]) - 1

\* pos = max([dep.find(separator) for separator in separators])
SepPos(dep) == Max({ Find(dep, Separators[k]) : k \in 1..Len(Separators) })

\* dep[:pos] and dep[pos:] for pos >= 0
DepName(dep, pos) == SubSeq(dep, 1, pos)
DepVersions(dep, pos) == SubSeq(dep, pos + 1, Len(dep))

\* f'{dep[:pos]} = "{dep[pos:]}"\n'
DepLine(dep, pos) ==
    DepName(dep, pos) \o DepMid \o DepVersions(dep, pos) \o DQuote \o <<NL>>

\* The arguments of the delegated add.
WithArgs(dep, path, url, commit, branch) ==
    <<ArgWith>>
      \o (IF dep # Empty THEN <<dep>> ELSE <<>>)
      \o (IF path # Empty THEN <<ArgUse, path>>
          ELSE IF url # Empty THEN <<ArgUse, url>> ELSE <<>>)
      \o (IF commit # Empty THEN <<ArgCommit, commit>>
          ELSE IF branch # Empty THEN <<ArgBranch, branch>> ELSE <<>>)

AlrWith(w, dep0, path, url, commit, branch, delete, manual, update, force) ==
    IF commit # Empty /\ branch # Empty THEN {Raise(w, "ValidationFailure")}
    ELSE IF path # Empty /\ url # Empty THEN {Raise(w, "ValidationFailure")}
    ELSE IF manual /\ dep0 = Empty THEN {Raise(w, "ValidationFailure")}
    ELSE
      LET dep == FixDep(dep0, manual)
          pos == SepPos(dep)
      IN IF manual
         THEN IF delete
              THEN DeleteArrayEntryFromManifest(w, DependsOn, dep, TRUE, update)
              ELSE Then(Then(Then(
                     {AppendManifest(w, << <<NL>> \o Header(DependsOn),
                                           DepLine(dep, pos) >>)},
                     LAMBDA x : IF path # Empty \/ url # Empty
                                THEN AlrPin(x, DepName(dep, pos), Empty, path, url,
                                            commit, branch, manual, FALSE)
                                ELSE {x}),
                     LAMBDA y : {Utime(y)}),
                     LAMBDA z : IF update
                                THEN RunAlr(z, <<ArgWith>>, TRUE, TRUE, force, TRUE)
                                ELSE {z})
         ELSE IF delete
              THEN RunAlr(w, <<ArgWith, ArgDel, dep>>, TRUE, TRUE, FALSE, TRUE)
              ELSE RunAlr(w, WithArgs(dep, path, url, commit, branch),
                          TRUE, TRUE, force, TRUE)

(* ------------------------------- inputs -------------------------------- *)
Crates == { <<"a">>, <<"b">> }
Arrays == { DependsOn, Pins }
Versions == { Empty, <<"1">> }
Paths == { Empty, <<"p">> }
Urls == { Empty, <<"u">> }
Commits == { Empty, <<"c">> }
Branches == { Empty, <<"r">> }
Deps == { Empty, <<"a">>, <<"a", "^", "1">> }
AddDeps == { <<"a">>, <<"b">> }

\* Every dependency expression of at most MaxDepLen characters.
DepAlphabet == { "a", "=", ">" }
AllDeps == UNION { [1..n -> DepAlphabet] : n \in 0..MaxDepLen }

\* The arguments of a call, with the defaults of the signatures.
DefaultArgs ==
    [array |-> Empty, crate |-> Empty, dep |-> Empty, version |-> Empty,
     path |-> Empty, url |-> Empty, commit |-> Empty, branch |-> Empty,
     delete |-> FALSE, manual |-> TRUE, fail_if_missing |-> TRUE,
     update |-> TRUE, force |-> FALSE]

(* ------------------------------- actions ------------------------------- *)
\* The call `op` with arguments `args` ended in world w.
Done(op, args, w) ==
    /\ manifest' = w.manifest
    /\ manifestMtime' = w.manifestMtime
    /\ lockMtime' = w.lockMtime
    /\ ncalls' = ncalls + 1
    /\ last' = [op |-> op, args |-> args, result |-> w.err, trace |-> w.trace,
                preManifest |-> manifest, preManifestMtime |-> manifestMtime,
                preLockMtime |-> lockMtime]

\* No call is waiting for the test case to look at its outcome.
NoCall ==
    [op |-> "none", args |-> DefaultArgs, result |-> "ok", trace |-> <<>>,
     preManifest |-> <<>>, preManifestMtime |-> 0, preLockMtime |-> 0]

\* A call is made when the previous one has returned, at most `limit` times.
CanCall(limit) == last.op = "none" /\ ncalls < limit

\* init_local_crate: `alr init` has written the manifest and the lockfile.
Init ==
    /\ manifest = InitManifest
    /\ manifestMtime = 1
    /\ lockMtime = 1
    /\ ncalls = 0
    /\ last = NoCall

\* The driver and the tool only compare the two file times with each other
\* and set them to the epoch or to the time of the clock, so that time can be
\* counted anew between two calls: a file time becomes its rank among the
\* two, the epoch stays the epoch.
Rank(t) ==
    IF t = 0 THEN 0
    ELSE Cardinality({ u \in {manifestMtime, lockMtime} : 0 < u /\ u <= t })

\* The call returns (or raises) to the test case, which goes on.
Return ==
    /\ last.op # "none"
    /\ last' = NoCall
    /\ manifestMtime' = Rank(manifestMtime)
    /\ lockMtime' = Rank(lockMtime)
    /\ UNCHANGED <<manifest, ncalls>>

RemoveEntryOf(limit) ==
    /\ CanCall(limit)
    /\ \E array \in Arrays, crate \in Crates, fim \in BOOLEAN, update \in BOOLEAN :
         \E w \in DeleteArrayEntryFromManifest(StartWorld, array, crate, fim, update) :
           Done("removeEntry",
                [DefaultArgs EXCEPT !.array = array, !.crate = crate,
                                    !.fail_if_missing = fim, !.update = update], w)

Unpin ==
    /\ CanCall(MaxCalls)
    /\ \E crate \in Crates, manual \in BOOLEAN, fim \in BOOLEAN, update \in BOOLEAN :
         \E w \in AlrUnpin(StartWorld, crate, manual, fim, update) :
           Done("unpin",
                [DefaultArgs EXCEPT !.crate = crate, !.manual = manual,
                                    !.fail_if_missing = fim, !.update = update], w)

Pin ==
    /\ CanCall(MaxCalls)
    /\ \E crate \in Crates, version \in Versions, path \in Paths, url \in Urls,
          commit \in Commits, branch \in Branches,
          manual \in BOOLEAN, update \in BOOLEAN :
         \E w \in AlrPin(StartWorld, crate, version, path, url, commit, branch,
                         manual, update) :
           Done("pin",
                [DefaultArgs EXCEPT !.crate = crate, !.version = version,
                                    !.path = path, !.url = url, !.commit = commit,
                                    !.branch = branch, !.manual = manual,
                                    !.update = update], w)

WithDependencyOf(limit, deps, deletes, manuals) ==
    /\ CanCall(limit)
    /\ \E dep \in deps, path \in Paths, url \in Urls,
          commit \in Commits, branch \in Branches, delete \in deletes,
          manual \in manuals, update \in BOOLEAN, force \in BOOLEAN :
         \E w \in AlrWith(StartWorld, dep, path, url, commit, branch,
                          delete, manual, update, force) :
           Done("withDependency",
                [DefaultArgs EXCEPT !.dep = dep, !.path = path, !.url = url,
                                    !.commit = commit, !.branch = branch,
                                    !.delete = delete, !.manual = manual,
                                    !.update = update, !.force = force], w)

RemoveEntry == RemoveEntryOf(MaxCalls)

WithDependency == WithDependencyOf(MaxCalls, Deps, BOOLEAN, BOOLEAN)

Next == RemoveEntry \/ Unpin \/ Pin \/ WithDependency \/ Return

Spec == Init /\ [][Next]_vars

\* A test case that only adds dependencies by hand and removes entries.
AddEntry == WithDependencyOf(MaxAddCalls, AddDeps, {FALSE}, {TRUE})

RemoveAdded == RemoveEntryOf(MaxAddCalls)

NextAdd == AddEntry \/ RemoveAdded \/ Return

SpecAdd == Init /\ [][NextAdd]_vars

\* One manual addition, of any dependency expression of the alphabet.
SplitDep == WithDependencyOf(1, AllDeps, {FALSE}, {TRUE})

NextDep == SplitDep \/ Return

SpecDep == Init /\ [][NextDep]_vars

(* ---------------------------- run_alr, called -------------------------- *)
\* The keyword arguments of the callers, in sorted order; run_alr knows
\* neither "env" nor "timeout".
KwargOrder == <<"complain_on_error", "debug", "env", "force", "quiet", "timeout">>
KwargNames == { KwargOrder[k] : k \in 1..Len(KwargOrder) }

\* kwargs.pop(key, default): the value
Pop(kwargs, key, default) == IF key \in DOMAIN kwargs THEN kwargs[key] ELSE default

\* The keys of kwargs after the four pops.
Leftover(kwargs) == DOMAIN kwargs \ {"complain_on_error", "debug", "force", "quiet"}

\* sorted(keys)[0]
FirstSorted(keys) ==
    KwargOrder[CHOOSE k \in 1..Len(KwargOrder) :
                 /\ KwargOrder[k] \in keys
                 /\ \A j \in 1..(k-1) : KwargOrder[j] \notin keys]

\* ' '.join(quote_arg(arg) for arg in argv); the arguments here have no
\* character that quote_arg would quote.
RECURSIVE Join(_)
Join(argv) ==
    IF argv = <<>> THEN <<>>
    ELSE IF Len(argv) = 1 THEN argv[1]
    ELSE argv[1] \o <<" ">> \o Join(Tail(argv))

\* out.replace('\r\n', '\n')
RECURSIVE ReplaceCRLF(_)
ReplaceCRLF(out) ==
    IF Len(out) < 2 THEN out
    ELSE IF out[1] = "\r" /\ out[2] = "\n"
    THEN <<"\n">> \o ReplaceCRLF(SubSeq(out, 3, Len(out)))
    ELSE <<out[1]>> \o ReplaceCRLF(Tail(out))

InvalidArgument ==
    <<"I", "n", "v", "a", "l", "i", "d", " ", "a", "r", "g", "u", "m", "e",
      "n", "t", ":", " ">>

NonZeroStatus ==
    <<"a", "l", "r", " ", "r", "e", "t", "u", "r", "n", "e", "d", " ", "n",
      "o", "n", "-", "z", "e", "r", "o", " ", "s", "t", "a", "t", "u", "s",
      " ", "c", "o", "d", "e">>

TheFollowingCommand ==
    <<"T", "h", "e", " ", "f", "o", "l", "l", "o", "w", "i", "n", "g", " ",
      "c", "o", "m", "m", "a", "n", "d", ":">>

ExittedWith ==
    <<"E", "x", "i", "t", "t", "e", "d", " ", "w", "i", "t", "h", " ", "s",
      "t", "a", "t", "u", "s", " ", "c", "o", "d", "e", " ">>

OutputColon ==
    <<"O", "u", "t", "p", "u", "t", ":">>

\* '{}'.format(status) for a status of one digit
Digits == <<"0", "1", "2", "3", "4", "5", "6", "7", "8", "9">>

\* Faulty variant of Complaint: the captured output is not printed.
ComplaintWithoutOutput(argv, status, out) ==
    << TheFollowingCommand,
       <<" ", " ">> \o Join(argv),
       ExittedWith \o <<Digits[status + 1]>>,
       OutputColon >>

\* The lines printed on the standard output before the raise.
Complaint(argv, status, out) ==
    << TheFollowingCommand,
       <<" ", " ">> \o Join(argv),
       ExittedWith \o <<Digits[status + 1]>>,
       OutputColon,
       out >>

\* No ProcessResult: the call raised.
NoResult == [status |-> -1, out |-> <<>>]

\* run_alr(*args, **kwargs) when the tool, if it is run, exits with `status`
\* having written `out`: what is raised and with which arguments, whether
\* and with which argument vector the tool was run, what was printed and
\* the ProcessResult returned.
RunAlrCall(args, kwargs, status, out) ==
    LET complain_on_error == Pop(kwargs, "complain_on_error", TRUE)
        debug == Pop(kwargs, "debug", TRUE)
        force == Pop(kwargs, "force", FALSE)
        quiet == Pop(kwargs, "quiet", TRUE)
        argv == Argv(args, debug, force, quiet)
    IN IF Leftover(kwargs) # {}
       THEN [raised |-> "ValidationFailure",
             payload |-> << InvalidArgument \o <<FirstSorted(Leftover(kwargs))>> >>,
             ran |-> FALSE, argv |-> <<>>, printed |-> <<>>, value |-> NoResult]
       ELSE IF status # 0 /\ complain_on_error
       THEN [raised |-> "InvocationFailure",
             payload |-> <<NonZeroStatus>>,
             ran |-> TRUE, argv |-> argv,
             printed |-> Complaint(argv, status, out), value |-> NoResult]
       ELSE [raised |-> "none", payload |-> <<>>,
             ran |-> TRUE, argv |-> argv, printed |-> <<>>,
             value |-> [status |-> status, out |-> ReplaceCRLF(out)]]

\* The arguments, keyword arguments and tool outputs of the calls.
RunArgs == { <<ArgPin>>, <<ArgWith, ArgDel, <<"a">>>> }
Kwargs == UNION { [keys -> BOOLEAN] : keys \in SUBSET KwargNames }
OutAlphabet == { "x", "\r", "\n" }
Outputs == UNION { [1..n -> OutAlphabet] : n \in 0..MaxOutLen }

\* One call of run_alr by the test case; the tool, when it is run, may
\* rewrite the lockfile.
Invoke ==
    /\ CanCall(1)
    /\ \E args \in RunArgs, kwargs \in Kwargs, status \in ToolStatus,
          out \in Outputs, rewrite \in BOOLEAN :
         LET r == RunAlrCall(args, kwargs, status, out)
         IN /\ r.ran \/ (status = 0 /\ out = <<>> /\ ~rewrite)
            /\ last' = [op |-> "invoke",
                        args |-> [args |-> args, kwargs |-> kwargs],
                        p |-> [status |-> status, out |-> out],
                        outcome |-> r]
            /\ lockMtime' = IF rewrite THEN StartWorld.clock + 1 ELSE lockMtime
    /\ ncalls' = ncalls + 1
    /\ UNCHANGED <<manifest, manifestMtime>>

NextRun == Invoke \/ Return

SpecRun == Init /\ [][NextRun]_vars

(* --------------------------- prepare_indexes --------------------------- *)
\* Values of the caller, with their Python type; the value is kept as the
\* text that str() gives.
StrValue(s) == [type |-> "str", val |-> s]
BoolValue(b) == [type |-> "bool", val |-> b]
IntValue(n) == [type |-> "int", val |-> n]
DictValue(d) == [type |-> "dict", val |-> d]

\* isinstance(value, typ); bool is a subclass of int
IsInstance(value, typ) ==
    value.type = typ \/ (typ = "int" /\ value.type = "bool")

\* desc.pop(key, default): the value
PopValue(d, key, default) == IF key \in DOMAIN d THEN d[key] ELSE default

\* Faulty variant of LeftoverKeys: the description always counts as used up.
NoLeftoverKeys(d) == {}

\* The keys of desc after the four pops.
LeftoverKeys(d) == DOMAIN d \ {"dir", "in_fixtures", "copy_crates_src", "priority"}

\* sorted(desc)[0], for the keys of the descriptions below
DescKeyOrder ==
    <<"branch", "copy_crates_src", "dir", "in_fixtures", "priority", "url">>

FirstKey(keys) ==
    DescKeyOrder[CHOOSE k \in 1..Len(DescKeyOrder) :
                   /\ DescKeyOrder[k] \in keys
                   /\ \A j \in 1..(k-1) : DescKeyOrder[j] \notin keys]

\* An effect of the call on the disk, for the index `name`.
DiskEvent(ev, name, data) == [ev |-> ev, name |-> name, data |-> data]

\* invalid_desc(reason)
InvalidDesc(w, name, reason) ==
    [w EXCEPT !.err = "ValidationFailure", !.failed = <<name, reason>>]

\* copytree(crates_dir, os.path.join(working_dir, 'crates')): fails when
\* the destination exists
CopyCrates(w, name) ==
    IF w.crates
    THEN [w EXCEPT !.err = "FileExistsError", !.failed = <<name, "crates">>]
    ELSE [w EXCEPT !.crates = TRUE,
                   !.trace = Append(@, DiskEvent("copytree", name, <<>>))]

\* os.path.join(working_dir, files_dir), files_dir being under the fixtures
\* (an absolute path, which join returns as it is) or relative
IndexUrl(in_fixtures, files_dir) ==
    IF in_fixtures.val = "True"
    THEN <<"TESTSUITE_ROOT", "fixtures", files_dir.val>>
    ELSE <<"working_dir", files_dir.val>>

\* mkdir(index_dir) and the write of index.toml
WriteIndex(w, name, priority, url) ==
    [w EXCEPT !.trace = @ \o << DiskEvent("mkdir", name, <<>>),
                                DiskEvent("index.toml", name,
                                          [name |-> name, priority |-> priority.val,
                                           url |-> url]) >>]

\* The body of the loop for one index.
PrepareIndex(w, name, desc) ==
    IF ~IsInstance(desc, "dict") THEN InvalidDesc(w, name, "description")
    ELSE
      LET files_dir == PopValue(desc.val, "dir", StrValue(name))
          in_fixtures == PopValue(desc.val, "in_fixtures", BoolValue("True"))
          copy_crates_src == PopValue(desc.val, "copy_crates_src", BoolValue("False"))
          priority == PopValue(desc.val, "priority", IntValue("1"))
          rest == LeftoverKeys(desc.val)
      IN IF ~IsInstance(files_dir, "str") THEN InvalidDesc(w, name, "dir")
         ELSE IF ~IsInstance(in_fixtures, "bool")
         THEN InvalidDesc(w, name, "in_fixtures")
         ELSE IF ~IsInstance(copy_crates_src, "bool")
         THEN InvalidDesc(w, name, "copy_crates_src")
         ELSE IF ~IsInstance(priority, "int") THEN InvalidDesc(w, name, "priority")
         ELSE IF rest # {} THEN InvalidDesc(w, name, FirstKey(rest))
         ELSE LET x == IF copy_crates_src.val = "True" THEN CopyCrates(w, name) ELSE w
              IN IF x.err # "ok" THEN x
                 ELSE WriteIndex(x, name, priority, IndexUrl(in_fixtures, files_dir))

\* for name, desc in index_descriptions.items()
RECURSIVE PrepareFrom(_, _)
PrepareFrom(w, items) ==
    IF items = <<>> \/ w.err # "ok" THEN w
    ELSE PrepareFrom(PrepareIndex(w, Head(items).name, Head(items).desc), Tail(items))

\* prepare_indexes, in a fresh configuration and working directory
PrepareIndexes(items) ==
    PrepareFrom([err |-> "ok", failed |-> <<>>, crates |-> FALSE,
                 trace |-> <<DiskEvent("mkdir", "indexes", <<>>)>>], items)

\* The descriptions of the callers: for each field, a value of its type or
\* one of another type; "url" and "branch" are no fields.
IndexNames == { "i", "j" }
FieldValues ==
    [dir |-> {StrValue("d"), IntValue("2")},
     in_fixtures |-> {BoolValue("False"), StrValue("d")},
     copy_crates_src |-> {BoolValue("True"), StrValue("d")},
     priority |-> {IntValue("2"), BoolValue("True"), StrValue("d")},
     url |-> {StrValue("d")},
     branch |-> {StrValue("d")}]

DescDicts ==
    UNION { { d \in [keys -> UNION { FieldValues[k] : k \in keys }] :
                \A k \in keys : d[k] \in FieldValues[k] }
            : keys \in SUBSET DOMAIN FieldValues }

Descs == { DictValue(d) : d \in DescDicts } \cup { StrValue("d") }

\* prepare_indexes is called with the mapping `items`, kept in insertion
\* order.
RegisterItems(items) ==
    LET w == PrepareIndexes(items)
    IN /\ last' = [op |-> "registerIndexes", args |-> items, result |-> w.err,
                   failed |-> w.failed, trace |-> w.trace]
       /\ ncalls' = ncalls + 1
       /\ UNCHANGED <<manifest, manifestMtime, lockMtime>>

\* One call of prepare_indexes by the test case, with no, one or two indexes.
Register ==
    /\ CanCall(1)
    /\ \/ RegisterItems(<<>>)
       \/ \E n \in IndexNames, d \in Descs : RegisterItems(<<[name |-> n, desc |-> d]>>)
       \/ \E n \in IndexNames, d \in Descs, e \in Descs :
            \E m \in IndexNames \ {n} :
              RegisterItems(<<[name |-> n, desc |-> d], [name |-> m, desc |-> e]>>)

NextIndex == Register \/ Return

SpecIndex == Init /\ [][NextIndex]_vars

(* ===================== what the claims speak about ===================== *)
\* The positions of the entry lines of `crate` under a header of `array`.
PairsAt(text, array, crate) ==
    LET ls == ReadLines(text)
    IN { i \in 2..Len(ls) : /\ ls[i-1] = Header(array)
                            /\ StartsWith(ls[i], crate \o SpaceEq) }

EntryCount(text, array, crate) == Cardinality(PairsAt(text, array, crate))

\* The effects of the last call, by kind.
Events(kind) == { k \in 1..Len(last.trace) : last.trace[k].ev = kind }
Wrote == Events("write") # {}
Touched == Events("utime") # {}
Invoked == Events("cli") # {}

Returned == last.op # "none" /\ last.result = "ok"
ManualCall(op) == last.op = op /\ last.args.manual
DelegatedCall == last.op \in {"pin", "unpin", "withDependency"} /\ ~last.args.manual

\* A world holding the manifest m, for asking what a call would do to it.
WorldOf(m) ==
    [manifest |-> m, manifestMtime |-> 1, lockMtime |-> 1, clock |-> 2,
     trace |-> <<>>, err |-> "ok"]

\* The manifests a successful manual pin of `crate` turns into m, among those
\* that have no [[pins]] entry for the crate.
BeforeManualPin(m, crate) ==
    { x \in { SubSeq(m, 1, k) : k \in 0..Len(m) } :
        /\ EntryCount(x, Pins, crate) = 0
        /\ \E version \in Versions, path \in Paths, url \in Urls,
              commit \in Commits, branch \in Branches :
             \E w \in AlrPin(WorldOf(x), crate, version, path, url, commit, branch,
                             TRUE, FALSE) :
               w.err = "ok" /\ w.manifest = m }

(* ------------------------------- C1 ------------------------------------ *)
\* C1: a manual pin of crate C on a manifest without a [[pins]] entry for C,
\* followed by a manual unpin of C, leaves the manifest content exactly as it
\* was before the pin.
C1_RoundTrip ==
    (ManualCall("unpin") /\ Returned)
      => \A x \in BeforeManualPin(last.preManifest, last.args.crate) :
           manifest = x

(* ------------------------------- C2 ------------------------------------ *)
RemovedDependency ==
    /\ last.op = "removeEntry" /\ last.args.array = DependsOn /\ Returned
    /\ EntryCount(last.preManifest, DependsOn, last.args.crate) >= 1

\* C2 as stated: after removeEntry("depends-on", C) has returned, on a
\* manifest made by manual additions that held at least one [[depends-on]]
\* entry for C, no [[depends-on]] header followed by an entry line for C is
\* left.
C2_NoneLeft ==
    RemovedDependency => EntryCount(manifest, DependsOn, last.args.crate) = 0

\* C2, amended: such a removal deletes the first [[depends-on]] header/entry
\* pair for C and nothing else, so the manifest holds one pair for C fewer
\* than before (none when it held exactly one).
C2_RemovesFirst ==
    RemovedDependency
      => LET ls == ReadLines(last.preManifest)
             hits == PairsAt(last.preManifest, DependsOn, last.args.crate)
             first == CHOOSE i \in hits : \A j \in hits : i <= j
         IN /\ ReadLines(manifest)
                 = [k \in 1..(Len(ls) - 2) |-> IF k < first - 1 THEN ls[k] ELSE ls[k + 2]]
            /\ EntryCount(manifest, DependsOn, last.args.crate) = Cardinality(hits) - 1

\* Reached: the removal of one of two entries for C, the other being left.
C2_Witness ==
    /\ RemovedDependency
    /\ EntryCount(last.preManifest, DependsOn, last.args.crate) = 2
    /\ EntryCount(manifest, DependsOn, last.args.crate) = 1

(* ------------------------------- C3 ------------------------------------ *)
\* The last call was a manual one that edited the manifest and returned.
ManualEdit ==
    /\ last.op \in {"removeEntry", "unpin", "pin", "withDependency"}
    /\ last.args.manual
    /\ Returned /\ Wrote

\* pin and withDependency invoke the tool last, after the reset.
ReconciledLast ==
    last.op \in {"pin", "withDependency"} /\ last.args.update

\* C3 as stated: on return from a manual call that edited the manifest, with
\* reconcile on or off, the lockfile time is strictly older than the
\* manifest time.
C3_LockOlder == ManualEdit => lockMtime < manifestMtime

\* C3, amended: this holds on return from removeEntry and unpin with
\* reconcile on or off, and from pin and withDependency with reconcile off;
\* with reconcile on, pin and withDependency invoke the tool after the reset
\* and the lockfile is as the tool left it.
C3_LockOlderUnlessReconciledLast ==
    ManualEdit
      => \/ lockMtime < manifestMtime
         \/ ReconciledLast /\ last.trace[Len(last.trace)].ev = "cli"

\* Reached: a manual edit during which the tool was invoked, the lockfile
\* being older than the manifest on return.
C3_Witness ==
    /\ ManualEdit /\ Invoked /\ ~ReconciledLast
    /\ lockMtime < manifestMtime

(* ------------------------------- C4 ------------------------------------ *)
\* C4: a pin call that fails with a validation error leaves the manifest
\* content and the lockfile timestamp as they were and has issued no CLI
\* invocation.
C4_ValidationNoEffect ==
    (last.op = "pin" /\ last.result = "ValidationFailure")
      => /\ manifest = last.preManifest
         /\ lockMtime = last.preLockMtime
         /\ ~Invoked

(* ------------------------------- C5 ------------------------------------ *)
\* C5: pin called with more than one of version, path, url non-empty fails
\* with ValidationFailure, writes nothing to the manifest and issues no CLI
\* invocation.  (Stated of the calls that are not refused for being delegated
\* without reconciliation, which is C6.)
SourcesGiven ==
    Cardinality({ f \in {"version", "path", "url"} : last.args[f] # Empty })

C5_ExclusiveSources ==
    (last.op = "pin" /\ SourcesGiven > 1 /\ (last.args.manual \/ last.args.update))
      => /\ last.result = "ValidationFailure"
         /\ ~Wrote
         /\ ~Invoked

(* ------------------------------- C6 ------------------------------------ *)
\* C6: every delegated call of pin, unpin or withDependency made with
\* reconcile = false fails with ConfigurationError before any CLI invocation.
\* (Stated of the calls whose options do not conflict, which are refused for
\* that.)
OptionsConflict ==
    \/ last.args.commit # Empty /\ last.args.branch # Empty
    \/ last.args.path # Empty /\ last.args.url # Empty

C6_DelegatedNeedsReconcile ==
    (DelegatedCall /\ ~last.args.update /\ ~OptionsConflict)
      => last.result = "ConfigurationError" /\ ~Invoked

(* ------------------------------- C7 ------------------------------------ *)
\* The [[depends-on]] pair a manual withDependency add of `dep` writes.
AddedPair(dep) ==
    LET d == FixDep(dep, TRUE)
    IN << Header(DependsOn), DepLine(d, SepPos(d)) >>

PairCount(text, pair) ==
    LET ls == ReadLines(text)
    IN Cardinality({ i \in 2..Len(ls) : ls[i-1] = pair[1] /\ ls[i] = pair[2] })

\* C7: on a manifest holding the [[depends-on]] pair that a manual
\* withDependency add of an expression wrote, a manual withDependency of the
\* same expression with delete = true does not fail for want of the entry:
\* when it returns the pair is gone.
C7_DeleteAdded ==
    (/\ ManualCall("withDependency") /\ last.args.delete
     /\ last.args.dep # Empty
     /\ PairCount(last.preManifest, AddedPair(last.args.dep)) > 0)
      => /\ last.result # "MutationNotFound"
         /\ Returned => PairCount(manifest, AddedPair(last.args.dep))
                           = PairCount(last.preManifest, AddedPair(last.args.dep)) - 1

(* ------------------------------- C8 ------------------------------------ *)
\* C8: removeEntry with failIfMissing = false on a manifest with no
\* header/entry pair for the array and key returns without error and leaves
\* the manifest content as it was.
C8_RemoveAbsentNoOp ==
    (/\ last.op = "removeEntry" /\ ~last.args.fail_if_missing
     /\ EntryCount(last.preManifest, last.args.array, last.args.crate) = 0)
      => last.result = "ok" /\ manifest = last.preManifest

\* Reached: such a removal, on a manifest that holds an entry line of the
\* key under the other array.
C8_Witness ==
    /\ last.op = "removeEntry" /\ ~last.args.fail_if_missing
    /\ EntryCount(last.preManifest, last.args.array, last.args.crate) = 0
    /\ \E other \in Arrays : EntryCount(last.preManifest, other, last.args.crate) > 0
    /\ last.result = "ok" /\ manifest = last.preManifest

(* ------------------------------- C10 ----------------------------------- *)
\* C10: on a delegated call of pin, unpin or withDependency the driver
\* neither resets the lockfile time nor writes the manifest: all it does is
\* at most one CLI invocation.
C10_DelegatedOnlyInvokes ==
    DelegatedCall
      => /\ ~Wrote /\ ~Touched
         /\ manifest = last.preManifest
         /\ manifestMtime = last.preManifestMtime
         /\ Cardinality(Events("cli")) <= 1

\* Reached: a delegated call that returned after its CLI invocation, the
\* tool having rewritten the lockfile.
C10_Witness ==
    /\ DelegatedCall /\ Returned /\ Invoked
    /\ lockMtime > last.preLockMtime

(* ------------------------------- C9 ------------------------------------ *)
IsSeparator(c) == \E k \in 1..Len(Separators) : Separators[k] = c

\* The expression as written: with the wildcard when it has no operator.
Expression(dep) ==
    IF \E k \in 1..Len(dep) : IsSeparator(dep[k]) THEN dep ELSE dep \o Star

\* The right-most occurrence of any operator character (counted from 0).
RightMost(d) ==
    (CHOOSE k \in 1..Len(d) :
        IsSeparator(d[k]) /\ \A j \in (k+1)..Len(d) : ~IsSeparator(d[j])) - 1

\* The largest, over the operator characters that occur, of the position of
\* the first occurrence of that character (counted from 0).
IsFirstOccurrence(d, k) == IsSeparator(d[k]) /\ \A j \in 1..(k-1) : d[j] # d[k]

LastFirstOccurrence(d) ==
    (CHOOSE k \in 1..Len(d) :
        IsFirstOccurrence(d, k)
          /\ \A j \in (k+1)..Len(d) : ~IsFirstOccurrence(d, j)) - 1

\* The text of an entry whose key is d before pos and whose value is d from
\* pos onward.
SplitEntry(d, pos) ==
    <<NL>> \o Header(DependsOn) \o SubSeq(d, 1, pos) \o <<" ", "=", " ", "\"">>
           \o SubSeq(d, pos + 1, Len(d)) \o <<"\"", NL>>

\* What the last call has appended to the manifest.
Appended == SubSeq(manifest, Len(last.preManifest) + 1, Len(manifest))

ManualAdd == ManualCall("withDependency") /\ ~last.args.delete /\ Wrote

\* C9 as stated: a manual withDependency add splits the expression at the
\* right-most occurrence of any operator character.
C9_SplitsAtRightMost ==
    ManualAdd
      => LET d == Expression(last.args.dep)
         IN StartsWith(Appended, SplitEntry(d, RightMost(d)))

\* C9, amended: the split position is the largest, over the operator
\* characters = ^ ~ < > *, of the first occurrence of that character in the
\* expression; the written key is everything before it and the quoted value
\* everything from it onward.
C9_SplitsAtLastFirstOccurrence ==
    ManualAdd
      => LET d == Expression(last.args.dep)
         IN StartsWith(Appended, SplitEntry(d, LastFirstOccurrence(d)))

\* Reached: an added expression in which an operator character occurs again
\* to the right of the split position.
C9_Witness ==
    /\ ManualAdd
    /\ LET d == Expression(last.args.dep)
       IN /\ RightMost(d) > LastFirstOccurrence(d)
          /\ StartsWith(Appended, SplitEntry(d, LastFirstOccurrence(d)))

(* ------------------------------- C13 ----------------------------------- *)
\* The last call was a manual add of an expression without operator
\* characters, and it got as far as writing the dependency.
PlainAdd ==
    /\ ManualCall("withDependency") /\ ~last.args.delete
    /\ last.args.dep # Empty
    /\ \A k \in 1..Len(last.args.dep) : ~IsSeparator(last.args.dep[k])
    /\ Wrote

\* The entry line `<expression> = "*"`.
WildcardEntry(dep) == dep \o <<" ", "=", " ", "\"", "*", "\"", NL>>

\* The text of the manifest as the k-th write of the last call left it.
Written(k) == last.trace[k].argv[1]

FirstWrite == CHOOSE k \in Events("write") : \A j \in Events("write") : k <= j

\* C13: a manual withDependency add whose expression has none of the
\* operator characters appends a [[depends-on]] header immediately followed
\* by the entry `<expression> = "*"` at the end of the manifest and leaves
\* all earlier lines as they were: the manifest this write leaves is the old
\* one followed by the pair, and without a source override it is the
\* manifest the call leaves.
C13_AppendsWildcardEntry ==
    PlainAdd
      => LET old == ReadLines(last.preManifest)
             new == ReadLines(Written(FirstWrite))
             n == Len(new)
         IN /\ n = Len(old) + 3
            /\ SubSeq(new, 1, Len(old)) = old
            /\ new[n-1] = Header(DependsOn)
            /\ new[n] = WildcardEntry(last.args.dep)
            /\ (last.args.path = Empty /\ last.args.url = Empty)
                 => manifest = Written(FirstWrite)

\* Reached: such an add on a manifest that holds other entries, which
\* returned leaving the pair as the last two lines of the manifest.
C13_Witness ==
    /\ PlainAdd /\ Returned
    /\ last.args.path = Empty /\ last.args.url = Empty
    /\ last.preManifest # InitManifest
    /\ LET ls == ReadLines(manifest)
       IN /\ ls[Len(ls)-1] = Header(DependsOn)
          /\ ls[Len(ls)] = WildcardEntry(last.args.dep)

(* ------------------------------- C14 ----------------------------------- *)
\* The options of the last call that C14 speaks of: commit and branch both
\* given to pin or withDependency, path and url both given to withDependency.
CommitAndBranch ==
    /\ last.op \in {"pin", "withDependency"}
    /\ last.args.commit # Empty /\ last.args.branch # Empty

PathAndUrl ==
    /\ last.op = "withDependency"
    /\ last.args.path # Empty /\ last.args.url # Empty

\* C14: pin and withDependency called with both commit and branch, manual or
\* delegated, with or without reconciliation, and withDependency called with
\* both path and url, fail with ValidationFailure before any manifest write,
\* any change of the lockfile time and any CLI invocation.
C14_ConflictFailsFirst ==
    (CommitAndBranch \/ PathAndUrl)
      => /\ last.result = "ValidationFailure"
         /\ last.trace = <<>>
         /\ manifest = last.preManifest
         /\ manifestMtime = last.preManifestMtime
         /\ lockMtime = last.preLockMtime

\* Reached: a manual pin with a url, a commit and a branch, refused on a
\* manifest that holds a pin of the crate and with a lockfile that a reset
\* would change.
C14_Witness ==
    /\ ManualCall("pin") /\ CommitAndBranch
    /\ last.args.url # Empty /\ last.args.version = Empty
    /\ EntryCount(last.preManifest, Pins, last.args.crate) = 1
    /\ last.preLockMtime > 0
    /\ last.result = "ValidationFailure"
    /\ manifest = last.preManifest

(* ------------------------------- C15 ----------------------------------- *)
\* No crate has more than one entry under the array.
Unique(text, array) ==
    LET ls == ReadLines(text)
    IN \A crate \in Crates :
         Cardinality({ i \in 2..Len(ls) : /\ ls[i-1] = Header(array)
                                          /\ StartsWith(ls[i], crate \o SpaceEq) }) <= 1

\* The manifest is as the call found it unless the call has written it, so
\* that its text need be looked at only before the first call and after a
\* call that wrote.
Rewritten == last.op = "none" \/ Wrote

UnwrittenUnchanged ==
    (last.op \in {"removeEntry", "unpin", "pin", "withDependency"} /\ ~Wrote)
      => manifest = last.preManifest

\* The key a manual add of `dep` writes.
AddedKey(dep) ==
    LET d == Expression(dep) IN SubSeq(d, 1, LastFirstOccurrence(d))

\* C15 as stated: from a manifest in which every crate name occurs at most
\* once per array, after any sequence of manual withDependency, pin, unpin
\* and removeEntry calls every crate name still occurs at most once under
\* [[depends-on]] and at most once under [[pins]].
C15_UniquePerArray ==
    /\ UnwrittenUnchanged
    /\ Rewritten => Unique(manifest, DependsOn) /\ Unique(manifest, Pins)

\* C15, amended: every crate name occurs at most once under [[pins]]; under
\* [[depends-on]] a manual add appends its pair whether or not the manifest
\* holds one for the crate, so that the crate has one entry more than before.
C15_UniquePinsOnly ==
    /\ UnwrittenUnchanged
    /\ Rewritten => Unique(manifest, Pins)
    /\ ManualAdd
         => EntryCount(manifest, DependsOn, AddedKey(last.args.dep))
              = EntryCount(last.preManifest, DependsOn, AddedKey(last.args.dep)) + 1

\* Reached: a manual pin of a crate that the manifest held a pin of has
\* returned, the manifest holding one pin of it.
C15_Witness ==
    /\ ManualCall("pin") /\ Returned
    /\ EntryCount(last.preManifest, Pins, last.args.crate) = 1
    /\ EntryCount(manifest, Pins, last.args.crate) = 1
    /\ Unique(manifest, Pins)

(* ------------------------------- C16 ----------------------------------- *)
IsHeader(line) == \E array \in Arrays : line = Header(array)

\* A `key = value` line.
IsEntry(line) ==
    /\ ~IsHeader(line)
    /\ \E k \in 1..(Len(line) - 2) : SubSeq(line, k, k + 2) = <<" ", "=", " ">>

\* Every header line is immediately followed by exactly one entry line.
Adjacent(text) ==
    LET ls == ReadLines(text)
    IN \A i \in 1..Len(ls) :
         IsHeader(ls[i])
           => /\ i < Len(ls) /\ IsEntry(ls[i+1])
              /\ i + 2 <= Len(ls) => ~IsEntry(ls[i+2])

\* The lines without the pair of header and entry at i-1 and i.
WithoutPair(ls, i) == SubSeq(ls, 1, i - 2) \o SubSeq(ls, i + 1, Len(ls))

\* The manifest is the text the last write of the call left.
LastWrite == CHOOSE k \in Events("write") : \A j \in Events("write") : j <= k

\* C16: from a manifest in which every [[depends-on]] and [[pins]] header
\* line is immediately followed by exactly one entry line, this holds of
\* every text any call writes to the manifest, and a removal deletes the
\* header and its entry together in its one rewrite.
C16_HeaderEntryAdjacent ==
    /\ last.op = "none" => Adjacent(manifest)
    /\ UnwrittenUnchanged
    /\ Wrote => manifest = Written(LastWrite)
    /\ \A k \in Events("write") : Adjacent(Written(k))
    /\ (last.op = "removeEntry" /\ Wrote)
         => /\ Cardinality(Events("write")) = 1
            /\ \E i \in PairsAt(last.preManifest, last.args.array, last.args.crate) :
                 ReadLines(manifest) = WithoutPair(ReadLines(last.preManifest), i)

\* Reached: a removal has rewritten a manifest that held two pairs, and the
\* other pair is still there.
C16_Witness ==
    /\ last.op = "removeEntry" /\ Wrote
    /\ \E i \in 1..Len(ReadLines(manifest)) : IsHeader(ReadLines(manifest)[i])
    /\ Len(ReadLines(manifest)) = Len(ReadLines(last.preManifest)) - 2
    /\ Adjacent(manifest)

(* ------------------------------- C18 ----------------------------------- *)
\* C18: removeEntry with failIfMissing = true on a manifest with no
\* header/entry pair for the array and key fails with MutationNotFound; the
\* manifest content and the lockfile time are as before and no CLI
\* invocation has been issued.
C18_RemoveAbsentFails ==
    (/\ last.op = "removeEntry" /\ last.args.fail_if_missing
     /\ EntryCount(last.preManifest, last.args.array, last.args.crate) = 0)
      => /\ last.result = "MutationNotFound"
         /\ manifest = last.preManifest
         /\ manifestMtime = last.preManifestMtime
         /\ lockMtime = last.preLockMtime
         /\ ~Invoked /\ ~Wrote /\ ~Touched

\* Reached: such a removal with reconcile = true has failed, on a manifest
\* that holds an entry of the key under the other array and with a lockfile
\* that a reset would change.
C18_Witness ==
    /\ last.op = "removeEntry" /\ last.args.fail_if_missing /\ last.args.update
    /\ EntryCount(last.preManifest, last.args.array, last.args.crate) = 0
    /\ \E other \in Arrays : EntryCount(last.preManifest, other, last.args.crate) > 0
    /\ last.preLockMtime > 0
    /\ last.result = "MutationNotFound"
    /\ lockMtime = last.preLockMtime

(* ------------------------------- C17 ----------------------------------- *)
\* The inline table of the variant the arguments a supply: a version, a
\* path, or a url with its commit or branch.
InlineTable(a) ==
    IF a.version # Empty
    THEN <<"v", "e", "r", "s", "i", "o", "n", " ", "=", " ", "\"">> \o a.version \o <<"\"">>
    ELSE IF a.path # Empty
    THEN <<"p", "a", "t", "h", " ", "=", " ", "'">> \o a.path \o <<"'">>
    ELSE <<"u", "r", "l", " ", "=", " ", "'">> \o a.url \o <<"'">>
           \o (IF a.commit # Empty
               THEN <<",", " ", "c", "o", "m", "m", "i", "t", " ", "=", " ", "'">>
                      \o a.commit \o <<"'">>
               ELSE IF a.branch # Empty
               THEN <<",", " ", "b", "r", "a", "n", "c", "h", " ", "=", " ", "'">>
                      \o a.branch \o <<"'">>
               ELSE <<>>)

\* The entry line `<crate> = { <inline table> }`.
PinEntry(a) ==
    a.crate \o <<" ", "=", " ", "{", " ">> \o InlineTable(a) \o <<" ", "}", NL>>

\* The last call was a manual pin with one of version, path, url, on a
\* manifest with at most one pin of the crate, and it returned.
PinnedOne ==
    /\ ManualCall("pin") /\ Returned
    /\ SourcesGiven = 1
    /\ EntryCount(last.preManifest, Pins, last.args.crate) <= 1

\* C17: after a successful manual pin of crate C with one of version, path,
\* url on a manifest holding at most one pin of C, the manifest holds exactly
\* one [[pins]] entry of C, header and entry are the last two lines of the
\* file, and the entry encodes the variant just supplied.
C17_PinReplaces ==
    PinnedOne
      => LET ls == ReadLines(manifest)
             n == Len(ls)
         IN /\ PairsAt(manifest, Pins, last.args.crate) = {n}
            /\ ls[n-1] = Header(Pins)
            /\ ls[n] = PinEntry(last.args)

\* Reached: such a pin, to a url and a commit, of a crate that the manifest
\* held another pin of, which is gone.
C17_Witness ==
    /\ PinnedOne
    /\ last.args.url # Empty /\ last.args.commit # Empty
    /\ EntryCount(last.preManifest, Pins, last.args.crate) = 1
    /\ LET old == ReadLines(last.preManifest)
           i == CHOOSE j \in PairsAt(last.preManifest, Pins, last.args.crate) : TRUE
       IN /\ old[i] # PinEntry(last.args)
          /\ \A k \in 1..Len(ReadLines(manifest)) : ReadLines(manifest)[k] # old[i]
    /\ EntryCount(manifest, Pins, last.args.crate) = 1

(* ------------------------------- C19 ----------------------------------- *)
\* C19: in every manual call that edits the manifest and reconciles
\* (removeEntry, unpin, pin, withDependency with reconcile = true), the
\* lockfile time is reset after the manifest write and before the CLI
\* invocation that reconciles: between a write and any later invocation
\* there is a reset.
C19_ResetBeforeReconcile ==
    (/\ last.op \in {"removeEntry", "unpin", "pin", "withDependency"}
     /\ last.args.manual /\ last.args.update
     /\ Wrote /\ Invoked)
      => \A k \in Events("cli") :
           \A i \in Events("write") :
             i < k => \E j \in Events("utime") : i < j /\ j < k

(* ------------------------------- C20 ----------------------------------- *)
\* C20: a manual pin, or a manual withDependency add with a path or url
\* override, called with reconcile = false issues no CLI invocation, whether
\* or not the manifest holds a pin of the crate.  (Stated of the pins that
\* name a version, a path or a url.)
C20_NoReconcileNoInvoke ==
    (/\ \/ ManualCall("pin") /\ SourcesGiven >= 1
        \/ /\ ManualCall("withDependency") /\ ~last.args.delete
           /\ (last.args.path # Empty \/ last.args.url # Empty)
     /\ ~last.args.update)
      => ~Invoked

(* ------------------------------- C11 ----------------------------------- *)
\* The last call was an invocation whose subprocess exited non-zero.
ExitedNonZero == last.op = "invoke" /\ last.outcome.ran /\ last.p.status # 0

\* The caller has passed complain_on_error = False.
OptedOut == ~Pop(last.args.kwargs, "complain_on_error", TRUE)

\* s occurs in t.
Infix(s, t) == \E k \in 0..(Len(t) - Len(s)) : SubSeq(t, k + 1, k + Len(s)) = s

\* The text x occurs in one of the arguments of the exception.
Carries(payload, x) == \E k \in 1..Len(payload) : Infix(x, payload[k])

\* C11 as stated: when the subprocess exits non-zero and the caller has not
\* opted out, the call fails with an InvocationFailure whose payload carries
\* the full argument vector and the captured output; when the caller has
\* opted out it returns a ProcessResult with that status.
C11_FailureCarriesAll ==
    ExitedNonZero
      => IF OptedOut
         THEN /\ last.outcome.raised = "none"
              /\ last.outcome.value.status = last.p.status
         ELSE /\ last.outcome.raised = "InvocationFailure"
              /\ \A i \in 1..Len(last.outcome.argv) :
                   Carries(last.outcome.payload, last.outcome.argv[i])
              /\ Carries(last.outcome.payload, last.p.out)

\* C11, amended: the InvocationFailure carries a fixed message only; the
\* argument vector, the status and the captured output have been printed on
\* the standard output before it is raised.  A caller that has opted out
\* gets a ProcessResult with that status, and nothing is printed.
C11_FailurePrintsAll ==
    ExitedNonZero
      => IF OptedOut
         THEN /\ last.outcome.raised = "none"
              /\ last.outcome.value.status = last.p.status
              /\ last.outcome.printed = <<>>
         ELSE /\ last.outcome.raised = "InvocationFailure"
              /\ last.outcome.payload = <<NonZeroStatus>>
              /\ \E k \in 1..Len(last.outcome.printed) :
                   Infix(Join(last.outcome.argv), last.outcome.printed[k])
              /\ \E k \in 1..Len(last.outcome.printed) :
                   last.outcome.printed[k] = last.p.out
              /\ SubSeq(last.outcome.argv,
                        Len(last.outcome.argv) - Len(last.args.args) + 1,
                        Len(last.outcome.argv)) = last.args.args

\* Reached: a forced invocation has failed, the tool having written a CRLF.
C11_Witness ==
    /\ ExitedNonZero /\ ~OptedOut
    /\ Pop(last.args.kwargs, "force", FALSE)
    /\ Infix(<<"\r", "\n">>, last.p.out)
    /\ last.outcome.raised = "InvocationFailure"
    /\ last.outcome.printed # <<>>

(* ------------------------------- C12 ----------------------------------- *)
\* The types of the fields of an index description (a boolean counts as an
\* integer, as it does for isinstance).
FieldTypes ==
    [dir |-> {"str"}, in_fixtures |-> {"bool"}, copy_crates_src |-> {"bool"},
     priority |-> {"int", "bool"}]

\* The description is no dictionary, or has a field of the wrong type or a
\* field that is not one of the four.
Malformed(desc) ==
    \/ desc.type # "dict"
    \/ \E k \in DOMAIN desc.val :
         \/ k \notin DOMAIN FieldTypes
         \/ k \in DOMAIN FieldTypes /\ desc.val[k].type \notin FieldTypes[k]

\* What the last call has put on the disk for the index `name`.
OnDisk(ev, name) ==
    { k \in 1..Len(last.trace) : last.trace[k].ev = ev /\ last.trace[k].name = name }

\* The first index with a malformed description, 0 when there is none.
FirstMalformed ==
    LET bad == { k \in 1..Len(last.args) : Malformed(last.args[k].desc) }
    IN IF bad = {} THEN 0 ELSE CHOOSE k \in bad : \A j \in bad : k <= j

\* The indexes before the k-th that ask for the crates copy (a second copy
\* fails for the directory that exists, which ends the call there).
CopiesBefore(k) ==
    { j \in 1..(k-1) :
        /\ "copy_crates_src" \in DOMAIN last.args[j].desc.val
        /\ last.args[j].desc.val["copy_crates_src"].val = "True" }

\* C12: in registerIndexes, when the description of an index has a field of
\* the wrong type or an unrecognized field, the call fails before the crates
\* copy of that index and before its index.toml is written; the index.toml
\* of the indexes processed before it are on the disk.
C12_ValidationBeforeWrite ==
    (/\ last.op = "registerIndexes" /\ FirstMalformed # 0
     /\ Cardinality(CopiesBefore(FirstMalformed)) <= 1)
      => LET k == FirstMalformed
         IN /\ last.result = "ValidationFailure"
            /\ last.failed[1] = last.args[k].name
            /\ OnDisk("copytree", last.args[k].name) = {}
            /\ OnDisk("mkdir", last.args[k].name) = {}
            /\ OnDisk("index.toml", last.args[k].name) = {}
            /\ \A j \in 1..(k-1) : OnDisk("index.toml", last.args[j].name) # {}
            /\ \A j \in (k+1)..Len(last.args) :
                 OnDisk("index.toml", last.args[j].name) = {}

\* Reached: the second index asks for the crates copy and has an
\* unrecognized field; the call has failed with the index.toml of the first
\* index written.
C12_Witness ==
    /\ last.op = "registerIndexes" /\ FirstMalformed = 2
    /\ last.args[2].desc.type = "dict"
    /\ "url" \in DOMAIN last.args[2].desc.val
    /\ "copy_crates_src" \in DOMAIN last.args[2].desc.val
    /\ last.args[2].desc.val["copy_crates_src"].val = "True"
    /\ last.result = "ValidationFailure"
    /\ OnDisk("index.toml", last.args[1].name) # {}
    /\ OnDisk("copytree", last.args[2].name) = {}

====
